---- MODULE Spec2Model ----
(***************************************************************************)
(* A state-machine model of the PDF magazine viewer in src/app.js: the     *)
(* `state` object, the flipbook DOM (page surfaces, canvases, text         *)
(* layers), the render cache, the load pipeline, the page-turn engine as   *)
(* seen through its events, search, and the zoom / pan transform.          *)
(*                                                                         *)
(* Asynchronous functions are cut at their awaits: every action is one     *)
(* run-to-completion block of JavaScript (an event handler, or the code    *)
(* between two awaits).  Promise continuations that are already resolved   *)
(* (a cache hit of renderPage, an early return of renderPageContent) run   *)
(* in microtasks before any other handler, so they belong to the same      *)
(* action.                                                                 *)
(*                                                                         *)
(* Numbers: zoom is kept in hundredths (1.0 = 100); page dimensions are    *)
(* pixels; an aspect ratio is a pair <<a, b>> meaning a / b.               *)
(***************************************************************************)
EXTENDS Integers, Sequences, FiniteSets, TLC

(* ------------------------------ bounds -------------------------------- *)

NumDocs == 2          \* documents the decoder can be given
MaxPages == 3         \* page count of the largest document
MaxQueryLen == 3      \* longest text typed into the search box
MaxTasks == 2         \* renders and flipbook rebuilds in flight when a toggle is taken
ZoomInCalls == 20     \* length of the run of zoomIn calls that is followed
MaxPanSteps == 1      \* |panX| <= 10 * MaxPanSteps
SpreadMaxPages == 10  \* page counts the pairing rule is tabulated for
MaxRelayoutTasks == 1 \* renders and rebuilds in flight when a resize or toggle is handled
LongPages == 6        \* page count of the document that outgrows the preload range

(* ------------------------- program constants -------------------------- *)

MOBILE_BREAKPOINT == 768
toolbarHeight == 72
minZoom == 50
maxZoom == 300
zoomStep == 25
zoomSpeed == 15
toggleZoomLevel == 180
floorHeight == 400
floorWidth == 300
lookAhead == 6

(* ----------------------------- environment ---------------------------- *)

Docs == 1..NumDocs
UrlDoc == 1                      \* the document behind 'book/book.pdf'

\* a file pdfjsLib.getDocument rejects
BadDoc == NumDocs + 1

\* a document with more pages than renderVisiblePages reaches from page 1
LongDoc == NumDocs + 2

\* doc.numPages
NumPagesOf(d) ==
    IF d = LongDoc THEN LongPages
    ELSE IF d % 2 = 1 THEN MaxPages ELSE MaxPages - 1

\* The decoder is deterministic: a damaged page fails every time it is
\* rasterized (page.render), a page with a broken text stream fails every
\* getTextContent.
RenderFails(d, p) == (d = UrlDoc /\ p = 2) \/ (d = LongDoc /\ p = LongPages)
TextFails(d, p) == (d = 2 /\ p = 1) \/ (d = LongDoc /\ p = LongPages - 1)

\* a page whose page.render promise stays pending for as long as one waits
Hangs(d, p) == d = LongDoc /\ p = LongPages - 2

\* page.getViewport({scale: 1}) of page 1, as width : height
AspectOf(d) == <<5, 7>>
FallbackAspect == <<357, 500>>   \* 0.714

\* window.innerWidth / innerHeight
Widths == {700, 900, 1400}
Heights == {772}

Chars == {"a", "B", " "}

ToLower(c) == CASE c = "A" -> "a" [] c = "B" -> "b" [] OTHER -> c

\* textContent.items of a page, each item's str a sequence of characters
DocItems(d, p) ==
    CASE d = 1 /\ p = 1 -> << <<"a">> >>
      [] d = 1 /\ p = 2 -> << <<"a", "b">>, <<"A">> >>
      [] d = 1 /\ p = 3 -> << <<"B">>, <<"a">> >>
      [] d = 2 /\ p = 2 -> << <<"A">> >>
      [] OTHER -> << <<"b">> >>

Max(a, b) == IF a >= b THEN a ELSE b
Min(a, b) == IF a <= b THEN a ELSE b
Abs(a) == IF a >= 0 THEN a ELSE -a

(* ------------------------------ strings ------------------------------- *)

LowerStr(s) == [i \in 1..Len(s) |-> ToLower(s[i])]

RECURSIVE TrimLeft(_)
TrimLeft(s) == IF s # << >> /\ Head(s) = " " THEN TrimLeft(Tail(s)) ELSE s

RECURSIVE TrimRight(_)
TrimRight(s) ==
    IF s # << >> /\ s[Len(s)] = " " THEN TrimRight(SubSeq(s, 1, Len(s) - 1)) ELSE s

Trim(s) == TrimRight(TrimLeft(s))

\* String.prototype.includes
Includes(text, q) ==
    \E i \in 1..(Len(text) - Len(q) + 1) : SubSeq(text, i, i + Len(q) - 1) = q

\* items.map(item => item.str).join(' ')
RECURSIVE JoinItems(_)
JoinItems(items) ==
    IF items = << >> THEN << >>
    ELSE IF Len(items) = 1 THEN items[1]
    ELSE items[1] \o <<" ">> \o JoinItems(Tail(items))

RECURSIVE SeqsUpTo(_)
SeqsUpTo(n) ==
    IF n = 0 THEN {<< >>}
    ELSE LET S == SeqsUpTo(n - 1)
         IN S \cup {Append(s, c) : s \in {x \in S : Len(x) = n - 1}, c \in Chars}

RawQueries == SeqsUpTo(MaxQueryLen)

(* ------------------------------ variables ----------------------------- *)

VARIABLES
    pdfDoc,               \* state.pdfDoc: 0 is null, else the open document
    totalPages,           \* state.totalPages
    currentPage,          \* state.currentPage
    isDoublePageMode,     \* state.isDoublePageMode
    isMobile,             \* state.isMobile
    zoom, panX, panY,     \* state.zoom (hundredths), state.panX, state.panY
    pageCache,            \* state.pageCache: set of entries [page, w, h, art]
    searchResults,        \* state.searchResults
    currentSearchIndex,   \* state.currentSearchIndex
    currentSearchQuery,   \* state.currentSearchQuery
    pageTexts,            \* state.pageTexts: function on the pages that have an entry
    basePageWidth, basePageHeight,
    pageFlip,             \* state.pageFlip: the engine, [st, index, target]
    innerWidth, innerHeight,
    resizeTimer,          \* the timer of debounce(handleResize, 200) is pending
    hash,                 \* the page number in location.hash, NoHash when absent
    pages,                \* the .page elements of #flipbook
    underneath,           \* #page-underneath: [page, shown]
    tasks,                \* renderPageContent calls suspended at an await
    inits,                \* initFlipbook calls suspended at getPage(1)
    loads,                \* loadPdfFromUrl ("url") and loadPdf ("file")
    searchStatus,         \* elements.searchResults.textContent: <<i, n>> for "i / n"
    timers,               \* pending setTimeout(highlightSearchMatches) calls
    pinch,                \* initialPinch* of setupZoomPanControls
    pointer,              \* isPanning, startPanX, state.isMobilePanMode, lastTouchX,
                          \* and the fingers on the screen
    loading, viewer, toast,
    lastOp,               \* history: the handler that ran last
    history               \* history: facts the properties refer to

stateVars == <<pdfDoc, totalPages, currentPage, isDoublePageMode, isMobile,
               pageCache, pageTexts, basePageWidth, basePageHeight>>
searchVars == <<searchResults, currentSearchIndex, currentSearchQuery,
                searchStatus, timers>>
zoomVars == <<zoom, panX, panY, pinch, pointer>>
domVars == <<pageFlip, pages, underneath, tasks, inits>>
envVars == <<innerWidth, innerHeight, resizeTimer, hash>>
uiVars == <<loads, loading, viewer, toast>>
vars == <<stateVars, searchVars, zoomVars, domVars, envVars, uiVars, lastOp, history>>

(* ------------------------- resolution planner ------------------------- *)

\* initFlipbook, lines 410-442: the page size for an available area, a layout
\* mode and an aspect ratio ar = <<a, b>>; Math.floor of the real quotients.
PlanDims(availW, availH, double, ar) ==
    LET a == ar[1]
        b == ar[2]
        maxH == Max(availH, floorHeight)
        maxW == Max(availW, floorWidth)
    IN  IF double
        THEN IF 2 * maxH * a > maxW * b
             THEN [w |-> maxW \div 2, h |-> (maxW * b) \div (2 * a)]
             ELSE [w |-> (maxH * a) \div b, h |-> maxH]
        ELSE IF maxH * a > maxW * b
             THEN [w |-> maxW, h |-> (maxW * b) \div a]
             ELSE [w |-> (maxH * a) \div b, h |-> maxH]

(* --------------------------- page-turn engine ------------------------- *)

NullFlip == [st |-> "null", index |-> 0, target |-> 0, double |-> FALSE]

\* The engine's current page index for a shown page: with showCover and a
\* landscape (double) layout it is the left page of the spread [0], [1,2],
\* [3,4], ...; in portrait (usePortrait, single) it is the page itself.
SpreadStart(i, double) ==
    IF ~double \/ i = 0 THEN i
    ELSE IF i % 2 = 1 THEN i ELSE i - 1

\* new St.PageFlip(..., {startPage}) + loadFromHTML: a start page outside the
\* book is not shown and the index stays at 0.
EngineShow(start, n, double) ==
    IF start < 0 \/ start >= n THEN 0 ELSE SpreadStart(start, double)

(* ------------------------------- DOM ---------------------------------- *)

NoCanvas == [doc |-> 0, page |-> 0, w |-> 0, h |-> 0, err |-> FALSE]

\* the canvas renderPage rasterizes from document doc
Canvas(doc, p, w, h) == [doc |-> doc, page |-> p, w |-> w, h |-> h, err |-> FALSE]

\* createErrorPage drawing at the default page size
createErrorPage_defaultSize(w, h) ==
    [doc |-> 0, page |-> 0, w |-> 400, h |-> 560, err |-> TRUE]

\* createErrorPage(width, height)
createErrorPage(w, h) == [doc |-> 0, page |-> 0, w |-> w, h |-> h, err |-> TRUE]

\* a .page element as initFlipbook creates it (lines 463-492)
NewPage(double) ==
    [canvas |-> NoCanvas, layers |-> << >>, hl |-> {},
     back |-> IF double THEN "none" ELSE "empty"]

NoUnderneath == [page |-> 0, shown |-> FALSE]

CacheHas(cache, p, w, h) == \E e \in cache : e.page = p /\ e.w = w /\ e.h = h
CacheGet(cache, p, w, h) == (CHOOSE e \in cache : e.page = p /\ e.w = w /\ e.h = h).art
CacheSet(cache, p, w, h, art) ==
    {e \in cache : ~(e.page = p /\ e.w = w /\ e.h = h)}
        \cup {[page |-> p, w |-> w, h |-> h, art |-> art]}

MapSet(m, k, v) == [x \in DOMAIN m \cup {k} |-> IF x = k THEN v ELSE m[x]]
EmptyMap == << >>

Op(name, n) == [op |-> name, n |-> n, calls |-> << >>]
OpCalls(name, n, calls) == [op |-> name, n |-> n, calls |-> calls]

(* ------------------------- renderPageContent -------------------------- *)

\* What a run of renderPageContent calls reads: the target size, the cache,
\* state.pdfDoc, the layout mode, and (history) the keys already rendered.
Ctx(w, h, cache, doc, double, completed) ==
    [w |-> w, h |-> h, cache |-> cache, doc |-> doc, double |-> double,
     completed |-> completed]

\* lines 672-681: the mirrored copy on the backside, single-page mode only
Backside(pg, p, double) ==
    IF pg[p].back # "none" /\ ~double THEN [pg EXCEPT ![p].back = "filled"] ELSE pg

\* the content emptied and the canvas not appended
PutCanvas_clearsOnly(pg, p, cv) ==
    [pg EXCEPT ![p].layers = << >>, ![p].hl = {}]

\* contentDiv.innerHTML = ''; contentDiv.appendChild(canvas)
PutCanvas(pg, p, cv) ==
    [pg EXCEPT ![p].canvas = cv, ![p].layers = << >>, ![p].hl = {}]

Task(p, ctx, pc, rest, own, load) ==
    [page |-> p, w |-> ctx.w, h |-> ctx.h, doc |-> ctx.doc, live |-> TRUE,
     pc |-> pc, rest |-> rest, own |-> own, load |-> load]

\* renderPageContent(p) up to its first pending await (lines 655-670, with
\* renderPage lines 296-304 and addTextLayer line 686).  done: the call
\* returned without suspending.  calls: the renderPage calls it made.
StartContent(pg, p, ctx, rest, own, load) ==
    IF p \notin DOMAIN pg \/ pg[p].canvas # NoCanvas
    THEN [pages |-> pg, tasks |-> {}, calls |-> << >>, done |-> TRUE]
    ELSE LET hit == CacheHas(ctx.cache, p, ctx.w, ctx.h)
             call == [page |-> p, w |-> ctx.w, h |-> ctx.h, hit |-> hit,
                      again |-> <<p, ctx.w, ctx.h>> \in ctx.completed]
         IN  IF ~hit /\ ctx.doc # 0
             THEN [pages |-> pg, tasks |-> {Task(p, ctx, "render", rest, own, load)},
                   calls |-> <<call>>, done |-> FALSE]
             ELSE LET cv == IF hit THEN CacheGet(ctx.cache, p, ctx.w, ctx.h)
                                   ELSE createErrorPage(ctx.w, ctx.h)
                      pg1 == PutCanvas(pg, p, cv)
                  IN  IF ctx.doc # 0
                      THEN [pages |-> pg1,
                            tasks |-> {Task(p, ctx, "text", rest, own, load)},
                            calls |-> <<call>>, done |-> FALSE]
                      ELSE [pages |-> Backside(pg1, p, ctx.double), tasks |-> {},
                            calls |-> <<call>>, done |-> TRUE]

\* for (const pageNum of pagesToRender) await renderPageContent(pageNum):
\* runs until one call suspends (the rest waits in its task) or the list ends.
RECURSIVE RunChain(_, _, _, _, _)
RunChain(pg, seq, ctx, own, load) ==
    IF seq = << >>
    THEN [pages |-> pg, tasks |-> {}, calls |-> << >>, done |-> TRUE]
    ELSE LET r == StartContent(pg, Head(seq), ctx, Tail(seq), own, load)
         IN  IF ~r.done THEN r
             ELSE LET r2 == RunChain(r.pages, Tail(seq), ctx, own, load)
                  IN  [r2 EXCEPT !.calls = r.calls \o r2.calls]

\* every call is issued at once (preRenderAllPages, the turn-start forEach)
RECURSIVE RunAll(_, _, _, _, _)
RunAll(pg, seq, ctx, own, load) ==
    IF seq = << >>
    THEN [pages |-> pg, tasks |-> {}, calls |-> << >>, done |-> TRUE]
    ELSE LET r == StartContent(pg, Head(seq), ctx, << >>, own, load)
             r2 == RunAll(r.pages, Tail(seq), ctx, own, load)
         IN  [pages |-> r2.pages, tasks |-> r.tasks \cup r2.tasks,
              calls |-> r.calls \o r2.calls, done |-> r.done /\ r2.done]

\* the loop of preRenderAllPages stopping one page early
PageSeq_dropLast(n) == [i \in 1..(n - 1) |-> i]

\* for (let pageNum = 1; pageNum <= state.totalPages; pageNum++), lines 649-651
PageSeq(n) == [i \in 1..n |-> i]

\* renderVisiblePages, lines 615-638: pagesToRender in insertion order.  The
\* spread members (lines 620-629) are added as computed; only the preload
\* loop clips to the book.
VisibleSpread(currentIndex, double) ==
    IF double
    THEN IF (currentIndex + 1) % 2 = 0
         THEN <<currentIndex + 1, currentIndex + 2>>
         ELSE <<currentIndex + 1, currentIndex>>
    ELSE <<currentIndex + 1>>

preloadRange(double) == IF double THEN 4 ELSE 2

RECURSIVE Dedup(_)
Dedup(s) ==
    IF s = << >> THEN << >>
    ELSE LET d == Dedup(SubSeq(s, 1, Len(s) - 1))
             x == s[Len(s)]
         IN  IF \E i \in 1..Len(d) : d[i] = x THEN d ELSE Append(d, x)

PagesToRender(currentIndex, double, n) ==
    LET lo == currentIndex + 1 - 2
        hi == currentIndex + 1 + preloadRange(double)
        near == [i \in 1..(hi - lo + 1) |-> lo + i - 1]
    IN  Dedup(VisibleSpread(currentIndex, double)
              \o SelectSeq(near, LAMBDA q : q >= 1 /\ q <= n))

\* the first renderPage call after an accepted toggle decides afterToggle
NoteCalls(hist, calls) ==
    IF hist.afterToggle = "armed" /\ calls # << >>
    THEN [hist EXCEPT !.afterToggle = IF calls[1].hit THEN "hit" ELSE "miss"]
    ELSE hist

(* ------------------------------- Init --------------------------------- *)

NoHash == << >>
StatusEmpty == <<0, 0>>          \* textContent = ''
StatusNone == <<0 - 1, 0>>       \* textContent = 'no results'

HashPages == (0 - 1)..(MaxPages + 1)

\* checkUrlForPdf, lines 215-221: parseInt(...) || 1
checkUrlForPdf(hs) == IF hs = NoHash \/ hs[1] = 0 THEN 1 ELSE hs[1]

IdleLoad == [pc |-> "idle", doc |-> 0, i |-> 0, cur |-> 0]
NoPinch == [dist |-> 0, zoom |-> 100, cx |-> 0, px |-> 0]
NoPointer == [isPanning |-> FALSE, startPanX |-> 0, isMobilePanMode |-> FALSE,
              lastTouchX |-> 0, touches |-> 0]

\* history.gesture: "pan" from the event that makes the gesture in progress a
\* pan (a right-button press, a second finger, a finger in pan mode) to its
\* release, "ended" once released; history.delivered: the last mouse or touch
\* event reached the listeners of the page-turn engine; history.pinch0: what
\* the last touchstart with two touches saw; history.late: the page of the
\* last jump to a search result had no text layer when the jump was made;
\* history.layoutW: the available width the flipbook was last laid out for.
NoHistory == [completed |-> {}, afterToggle |-> "no", staleWrite |-> FALSE,
              zoomRun |-> 0, gesture |-> "none", delivered |-> FALSE,
              pinch0 |-> NoPinch, late |-> FALSE, layoutW |-> 0]

\* The state once init() (lines 71-81) has returned: the fragment is read,
\* the device class is set, loadPdfFromUrl('book/book.pdf') waits for fetch;
\* doc is the document behind 'book/book.pdf'.
InitOf(doc) ==
    /\ innerWidth \in Widths
    /\ innerHeight \in Heights
    /\ resizeTimer = FALSE
    /\ hash \in {NoHash} \cup {<<n>> : n \in HashPages}
    /\ pdfDoc = 0
    /\ totalPages = 0
    /\ currentPage = checkUrlForPdf(hash)
    /\ isMobile = (innerWidth <= MOBILE_BREAKPOINT)
    /\ isDoublePageMode = ~(innerWidth <= MOBILE_BREAKPOINT)
    /\ zoom = 100 /\ panX = 0 /\ panY = 0
    /\ pageCache = {}
    /\ searchResults = << >>
    /\ currentSearchIndex = 0 - 1
    /\ currentSearchQuery = << >>
    /\ pageTexts = EmptyMap
    /\ basePageWidth = 400 /\ basePageHeight = 560
    /\ pageFlip = NullFlip
    /\ pages = << >>
    /\ underneath = NoUnderneath
    /\ tasks = {}
    /\ inits = {}
    /\ loads = [url |-> [pc |-> "open", doc |-> doc, i |-> 0, cur |-> 0],
                file |-> IdleLoad]
    /\ searchStatus = StatusEmpty
    /\ timers = {}
    /\ pinch = NoPinch
    /\ pointer = NoPointer
    /\ loading = TRUE /\ viewer = FALSE /\ toast = ""
    /\ lastOp = Op("init", 0)
    /\ history = NoHistory

Init == InitOf(UrlDoc)

(* --------------------------- load pipeline ---------------------------- *)

CurCtx(cache, completed) ==
    Ctx(basePageWidth, basePageHeight, cache, pdfDoc, isDoublePageMode, completed)

\* initFlipbook up to `await state.pdfDoc.getPage(1)` (lines 388-402): the
\* available area and the document are read before the await.  The viewer
\* container fills the window, and measures 0 x 0 while it is hidden.
InitCall(caller) ==
    [caller |-> caller, doc |-> pdfDoc,
     w |-> IF viewer THEN innerWidth ELSE 0,
     h |-> (IF viewer THEN innerHeight ELSE 0) - toolbarHeight]

LoadOf(caller) == IF caller \in {"url", "file"} THEN caller ELSE "none"

\* What follows `await initFlipbook()` in a load (lines 137-145, 276-287):
\* preRenderAllPages issues every page, and when nothing is pending the load
\* ends with the viewer shown and the overlay hidden.
AfterInit(L, pg, tk, lds, ctx) ==
    IF L = "none"
    THEN [pages |-> pg, tasks |-> tk, loads |-> lds, loading |-> loading,
          viewer |-> viewer, calls |-> << >>]
    ELSE LET r == RunAll(pg, PageSeq(totalPages), ctx, "pre", L)
         IN  IF r.done
             THEN [pages |-> r.pages, tasks |-> tk,
                   loads |-> [lds EXCEPT ![L] = IdleLoad],
                   loading |-> FALSE, viewer |-> TRUE, calls |-> r.calls]
             ELSE [pages |-> r.pages, tasks |-> tk \cup r.tasks,
                   loads |-> [lds EXCEPT ![L].pc = "prerender"],
                   loading |-> TRUE, viewer |-> viewer, calls |-> r.calls]

\* handleFileUpload / handleDrop -> loadPdf(file), up to the first await
StartUpload(d) ==
    /\ loads' = [loads EXCEPT !.file = [pc |-> "open", doc |-> d, i |-> 0, cur |-> 0]]
    /\ loading' = TRUE
    /\ lastOp' = Op("loadPdf", d)
    /\ UNCHANGED <<stateVars, searchVars, zoomVars, domVars, envVars, viewer, toast,
                   history>>

\* lines 112-121 / 262-271: the document opened; extractAllPageTexts starts
LoadOpened(L) ==
    /\ loads[L].pc = "open"
    /\ loads[L].doc # BadDoc
    /\ pdfDoc' = loads[L].doc
    /\ totalPages' = NumPagesOf(loads[L].doc)
    /\ loads' = [loads EXCEPT ![L].pc = "extract", ![L].i = 1, ![L].cur = loads[L].doc]
    /\ loading' = TRUE
    /\ lastOp' = Op("opened", loads[L].doc)
    /\ UNCHANGED <<currentPage, isDoublePageMode, isMobile, pageCache, pageTexts,
                   basePageWidth, basePageHeight, searchVars, zoomVars, domVars,
                   envVars, viewer, toast, history>>

LoadFailed_dropsDocument(L) ==
    /\ loads[L].pc = "open"
    /\ L = "url" \/ loads[L].doc = BadDoc
    /\ loads' = [loads EXCEPT ![L] = IdleLoad]
    /\ loading' = FALSE
    /\ toast' = "load-error"
    /\ pdfDoc' = 0
    /\ totalPages' = 0
    /\ lastOp' = Op("loadFailed", loads[L].doc)
    /\ UNCHANGED <<currentPage, isDoublePageMode, isMobile, pageCache, pageTexts,
                   basePageWidth, basePageHeight, searchVars, zoomVars, domVars,
                   envVars, viewer, history>>

\* the catch block (lines 147-151 / 289-293): fetch or getDocument failed
LoadFailed(L) ==
    /\ loads[L].pc = "open"
    /\ L = "url" \/ loads[L].doc = BadDoc
    /\ loads' = [loads EXCEPT ![L] = IdleLoad]
    /\ loading' = FALSE
    /\ toast' = "load-error"
    /\ lastOp' = Op("loadFailed", loads[L].doc)
    /\ UNCHANGED <<stateVars, searchVars, zoomVars, domVars, envVars, viewer, history>>

\* One iteration of extractAllPageTexts (lines 371-381) completes for page i
\* of the document its getPage was issued on; the loop then tests
\* i + 1 <= state.totalPages and issues the next getPage on state.pdfDoc.
ExtractStep(L) ==
    /\ loads[L].pc = "extract"
    /\ LET i == loads[L].i
           ok == ~TextFails(loads[L].cur, i)
           text == IF ok THEN LowerStr(JoinItems(DocItems(loads[L].cur, i))) ELSE << >>
           more == i + 1 <= totalPages
       IN  /\ pageTexts' = MapSet(pageTexts, i, text)
           /\ IF more
              THEN /\ loads' = [loads EXCEPT ![L].i = i + 1, ![L].cur = pdfDoc]
                   /\ UNCHANGED <<inits, viewer>>
              ELSE IF L = "url"
              THEN /\ loads' = [loads EXCEPT ![L].pc = "delay"]
                   /\ viewer' = TRUE
                   /\ UNCHANGED inits
              ELSE /\ loads' = [loads EXCEPT ![L].pc = "init"]
                   /\ inits' = inits \cup {InitCall(L)}
                   /\ UNCHANGED viewer
           /\ lastOp' = Op("extract", i)
    /\ UNCHANGED <<pdfDoc, totalPages, currentPage, isDoublePageMode, isMobile,
                   pageCache, basePageWidth, basePageHeight, searchVars, zoomVars,
                   pageFlip, pages, underneath, tasks, envVars, loading, toast, history>>

\* lines 128-135: the animation frame and the 100 ms timer elapsed
LoadDelayDone ==
    /\ loads.url.pc = "delay"
    /\ loads' = [loads EXCEPT !.url.pc = "init"]
    /\ inits' = inits \cup {InitCall("url")}
    /\ lastOp' = Op("delayDone", 0)
    /\ UNCHANGED <<stateVars, searchVars, zoomVars, pageFlip, pages, underneath, tasks,
                   envVars, loading, viewer, toast, history>>

\* initFlipbook from getPage(1) on (lines 402-613): the page size, the page
\* elements, a new engine, and renderVisiblePages up to its first await.
InitFlipbookResume(c) ==
    /\ c \in inits
    /\ LET ar == IF c.doc # 0 THEN AspectOf(c.doc) ELSE FallbackAspect
           d == PlanDims(c.w, c.h, isDoublePageMode, ar)
           pg0 == [i \in 1..totalPages |-> NewPage(isDoublePageMode)]
           tk0 == {[t EXCEPT !.live = FALSE] : t \in tasks}
           idx == EngineShow(currentPage - 1, totalPages, isDoublePageMode)
           ctx == Ctx(d.w, d.h, pageCache, pdfDoc, isDoublePageMode, history.completed)
           L == LoadOf(c.caller)
           r == RunChain(pg0, PagesToRender(idx, isDoublePageMode, totalPages),
                         ctx, "vis", L)
           a == IF r.done THEN AfterInit(L, r.pages, tk0, loads, ctx)
                ELSE [pages |-> r.pages, tasks |-> tk0 \cup r.tasks, loads |-> loads,
                      loading |-> loading, viewer |-> viewer, calls |-> << >>]
       IN  /\ basePageWidth' = d.w
           /\ basePageHeight' = d.h
           /\ pageFlip' = [st |-> "read", index |-> idx, target |-> idx,
                           double |-> isDoublePageMode]
           /\ pages' = a.pages
           /\ tasks' = a.tasks
           /\ loads' = a.loads
           /\ loading' = a.loading
           /\ viewer' = a.viewer
           /\ lastOp' = OpCalls("initFlipbook", idx, r.calls \o a.calls)
           /\ history' = [NoteCalls(history, r.calls \o a.calls) EXCEPT !.layoutW = c.w]
    /\ inits' = inits \ {c}
    /\ UNCHANGED <<pdfDoc, totalPages, currentPage, isDoublePageMode, isMobile,
                   pageCache, pageTexts, searchVars, zoomVars, underneath, envVars,
                   toast>>

(* --------------------------- render tasks ----------------------------- *)

\* renderPageContent after addTextLayer (lines 672-682) and what awaits it:
\* the next page of renderVisiblePages' loop, or preRenderAllPages' join.
TaskEnd(t, pg, tk, ctx) ==
    LET pgb == IF t.live THEN Backside(pg, t.page, isDoublePageMode) ELSE pg
        same == [pages |-> pgb, tasks |-> tk, loads |-> loads, loading |-> loading,
                 viewer |-> viewer, calls |-> << >>]
    IN  CASE t.own = "vis" ->
                LET r == RunChain(pgb, t.rest, ctx, "vis", t.load)
                IN  IF r.done
                    THEN LET a == AfterInit(t.load, r.pages, tk, loads, ctx)
                         IN  [a EXCEPT !.calls = r.calls \o a.calls]
                    ELSE [same EXCEPT !.pages = r.pages, !.tasks = tk \cup r.tasks,
                                      !.calls = r.calls]
          [] t.own = "pre" ->
                IF \E u \in tk : u.own = "pre" /\ u.load = t.load
                THEN same
                ELSE [same EXCEPT !.loads = [loads EXCEPT ![t.load] = IdleLoad],
                                  !.loading = FALSE, !.viewer = TRUE]
          [] OTHER -> same

\* renderPage from its awaits on (lines 304-353), then renderPageContent
\* lines 666-670 up to addTextLayer's getPage: rasterized and cached, or the
\* catch block's placeholder, which is returned without a cache entry.
TaskRenderDone(t) ==
    /\ t \in tasks
    /\ t.pc = "render"
    /\ LET ok == ~RenderFails(t.doc, t.page)
           cv == IF ok THEN Canvas(t.doc, t.page, t.w, t.h)
                       ELSE createErrorPage(t.w, t.h)
           cache1 == IF ok THEN CacheSet(pageCache, t.page, t.w, t.h, cv)
                           ELSE pageCache
           pg1 == IF t.live THEN PutCanvas(pages, t.page, cv) ELSE pages
           hist1 == [history EXCEPT
                        !.completed = @ \cup {<<t.page, t.w, t.h>>},
                        !.staleWrite = @ \/ (ok /\ history.afterToggle = "armed")]
       IN  /\ pageCache' = cache1
           /\ IF pdfDoc # 0
              THEN /\ pages' = pg1
                   /\ tasks' = (tasks \ {t}) \cup {[t EXCEPT !.pc = "text", !.doc = pdfDoc]}
                   /\ history' = hist1
                   /\ lastOp' = Op(IF ok THEN "rendered" ELSE "renderFailed", t.page)
                   /\ UNCHANGED <<loads, loading, viewer>>
              ELSE LET a == TaskEnd(t, pg1, tasks \ {t},
                                    CurCtx(cache1, hist1.completed))
                   IN  /\ pages' = a.pages
                       /\ tasks' = a.tasks
                       /\ loads' = a.loads
                       /\ loading' = a.loading
                       /\ viewer' = a.viewer
                       /\ history' = NoteCalls(hist1, a.calls)
                       /\ lastOp' = OpCalls(IF ok THEN "rendered" ELSE "renderFailed",
                                            t.page, a.calls)
    /\ UNCHANGED <<pdfDoc, totalPages, currentPage, isDoublePageMode, isMobile,
                   pageTexts, basePageWidth, basePageHeight, searchVars, zoomVars,
                   pageFlip, underneath, inits, envVars, toast>>

\* addTextLayer from its awaits on (lines 686-716): the spans of the page of
\* the document read at line 686 are appended, or the error is logged.
TaskTextDone(t) ==
    /\ t \in tasks
    /\ t.pc = "text"
    /\ LET ok == ~TextFails(t.doc, t.page)
           pg1 == IF ok /\ t.live
                  THEN [pages EXCEPT ![t.page].layers = Append(@, t.doc)]
                  ELSE pages
           a == TaskEnd(t, pg1, tasks \ {t}, CurCtx(pageCache, history.completed))
       IN  /\ pages' = a.pages
           /\ tasks' = a.tasks
           /\ loads' = a.loads
           /\ loading' = a.loading
           /\ viewer' = a.viewer
           /\ history' = NoteCalls(history, a.calls)
           /\ lastOp' = OpCalls(IF ok THEN "textLayer" ELSE "textLayerFailed",
                                t.page, a.calls)
    /\ UNCHANGED <<stateVars, searchVars, zoomVars, pageFlip, underneath, inits,
                   envVars, toast>>

(* ----------------------------- view mode ------------------------------ *)

\* toggleViewMode keeping the cache
toggleViewMode_keepsCache ==
    IF isMobile /\ ~isDoublePageMode
    THEN /\ toast' = "mobile-no-double"
         /\ lastOp' = Op("toggleRejected", 0)
         /\ UNCHANGED <<stateVars, searchVars, zoomVars, domVars, envVars, loads,
                        loading, viewer, history>>
    ELSE /\ isDoublePageMode' = ~isDoublePageMode
         /\ IF pdfDoc # 0
            THEN /\ inits' = inits \cup {InitCall("toggle")}
                 /\ history' = [history EXCEPT !.completed = {},
                                               !.afterToggle = "armed",
                                               !.staleWrite = FALSE]
                 /\ UNCHANGED pageCache
            ELSE UNCHANGED <<pageCache, inits, history>>
         /\ lastOp' = Op("toggleViewMode", 0)
         /\ UNCHANGED <<pdfDoc, totalPages, currentPage, isMobile, pageTexts,
                        basePageWidth, basePageHeight, searchVars, zoomVars, pageFlip,
                        pages, underneath, tasks, envVars, uiVars>>

\* toggleViewMode without the test of lines 1036-1039
toggleViewMode_noMobileCheck ==
    /\ isDoublePageMode' = ~isDoublePageMode
    /\ IF pdfDoc # 0
       THEN /\ pageCache' = {}
            /\ inits' = inits \cup {InitCall("toggle")}
            /\ history' = [history EXCEPT !.completed = {},
                                          !.afterToggle = "armed",
                                          !.staleWrite = FALSE]
       ELSE UNCHANGED <<pageCache, inits, history>>
    /\ lastOp' = Op("toggleViewMode", 0)
    /\ UNCHANGED <<pdfDoc, totalPages, currentPage, isMobile, pageTexts,
                   basePageWidth, basePageHeight, searchVars, zoomVars, pageFlip,
                   pages, underneath, tasks, envVars, uiVars>>

\* toggleViewMode, lines 1034-1057
toggleViewMode ==
    IF isMobile /\ ~isDoublePageMode
    THEN /\ toast' = "mobile-no-double"
         /\ lastOp' = Op("toggleRejected", 0)
         /\ UNCHANGED <<stateVars, searchVars, zoomVars, domVars, envVars, loads,
                        loading, viewer, history>>
    ELSE /\ isDoublePageMode' = ~isDoublePageMode
         /\ IF pdfDoc # 0
            THEN /\ pageCache' = {}
                 /\ inits' = inits \cup {InitCall("toggle")}
                 /\ history' = [history EXCEPT !.completed = {},
                                               !.afterToggle = "armed",
                                               !.staleWrite = FALSE]
            ELSE UNCHANGED <<pageCache, inits, history>>
         /\ lastOp' = Op("toggleViewMode", 0)
         /\ UNCHANGED <<pdfDoc, totalPages, currentPage, isMobile, pageTexts,
                        basePageWidth, basePageHeight, searchVars, zoomVars, pageFlip,
                        pages, underneath, tasks, envVars, uiVars>>

(* ------------------------------- resize ------------------------------- *)

\* checkMobileMode leaving the layout mode as it is
checkMobileMode_keepsDouble ==
    [isMobile |-> innerWidth <= MOBILE_BREAKPOINT,
     isDoublePageMode |-> isDoublePageMode,
     changed |-> isMobile # (innerWidth <= MOBILE_BREAKPOINT)]

\* checkMobileMode, lines 83-102: state.isMobile and state.isDoublePageMode
\* after the call, and the returned wasMobile !== state.isMobile
checkMobileMode ==
    LET mobile == innerWidth <= MOBILE_BREAKPOINT
    IN  [isMobile |-> mobile,
         isDoublePageMode |-> IF mobile /\ isDoublePageMode THEN FALSE
                              ELSE isDoublePageMode,
         changed |-> isMobile # mobile]

\* The window is resized to width w, or handleFullscreenChange sets its
\* timer (line 1129): handleResize will run once the timer elapses.
WindowResize(w) ==
    /\ innerWidth' = w
    /\ resizeTimer' = TRUE
    /\ lastOp' = Op("resize", w)
    /\ UNCHANGED <<stateVars, searchVars, zoomVars, domVars, innerHeight, hash,
                   uiVars, history>>

resizeMargin == 40
resizeThreshold == 50

\* lines 1226-1234: Math.abs(expectedWidth - state.basePageWidth) > 50, with
\* expectedWidth = newWidth / 2 in double mode (compared here doubled)
SignificantResize(double) ==
    LET newWidth == (IF viewer THEN innerWidth ELSE 0) - resizeMargin
    IN  IF double
        THEN Abs(newWidth - 2 * basePageWidth) > 2 * resizeThreshold
        ELSE Abs(newWidth - basePageWidth) > resizeThreshold

\* handleResize, lines 1213-1239, up to the await of the initFlipbook call it
\* makes; the step is recorded by the branch taken
handleResize ==
    /\ resizeTimer
    /\ resizeTimer' = FALSE
    /\ LET m == checkMobileMode
       IN  /\ isMobile' = m.isMobile
           /\ isDoublePageMode' = m.isDoublePageMode
           /\ IF pdfDoc # 0 /\ pageFlip.st # "null"
              THEN IF m.changed
                   THEN /\ pageCache' = {}
                        /\ inits' = inits \cup {InitCall("resize")}
                        /\ history' = [history EXCEPT !.completed = {}]
                        /\ lastOp' = Op("resizeModeChanged", innerWidth)
                   ELSE IF SignificantResize(m.isDoublePageMode)
                   THEN /\ inits' = inits \cup {InitCall("resize")}
                        /\ lastOp' = Op("resizeRelayout", innerWidth)
                        /\ UNCHANGED <<pageCache, history>>
                   ELSE /\ lastOp' = Op("resizeKept", innerWidth)
                        /\ UNCHANGED <<pageCache, inits, history>>
              ELSE /\ lastOp' = Op("resizeNoBook", innerWidth)
                   /\ UNCHANGED <<pageCache, inits, history>>
    /\ UNCHANGED <<pdfDoc, totalPages, currentPage, pageTexts, basePageWidth,
                   basePageHeight, searchVars, zoomVars, pageFlip, pages, underneath,
                   tasks, innerWidth, innerHeight, hash, uiVars>>

(* ----------------------------- navigation ----------------------------- *)

\* pageFlip.flip(i) / flipNext / flipPrev as the engine takes them: a turn is
\* accepted only at rest, towards a page of the book on another spread.
EngineFlip(pf, i) ==
    IF pf.st = "read" /\ i >= 0 /\ i < Len(pages)
       /\ SpreadStart(i, pf.double) # pf.index
    THEN [pf EXCEPT !.st = "turning", !.target = i]
    ELSE pf

NextIndex(pf) == IF pf.double /\ pf.index > 0 THEN pf.index + 2 ELSE pf.index + 1
PrevIndex(pf) == IF pf.double /\ pf.index > 1 THEN pf.index - 2 ELSE pf.index - 1

\* goToPage without the range test
goToPage_noRange(n) ==
    IF pageFlip.st # "null"
    THEN [pf |-> EngineFlip(pageFlip, n - 1), cp |-> n]
    ELSE [pf |-> pageFlip, cp |-> currentPage]

\* goToPage, lines 921-927: the engine and state.currentPage after the call
goToPage(n) ==
    IF pageFlip.st # "null" /\ n >= 1 /\ n <= totalPages
    THEN [pf |-> EngineFlip(pageFlip, n - 1), cp |-> n]
    ELSE [pf |-> pageFlip, cp |-> currentPage]

\* a call goToPage(n): Home, End, or any other caller
GoToPage(n) ==
    /\ pageFlip' = goToPage(n).pf
    /\ currentPage' = goToPage(n).cp
    /\ lastOp' = Op("goToPage", n)
    /\ UNCHANGED <<pdfDoc, totalPages, isDoublePageMode, isMobile, pageCache,
                   pageTexts, basePageWidth, basePageHeight, searchVars, zoomVars,
                   pages, underneath, tasks, inits, envVars, uiVars, history>>

\* handlePageInputChange, lines 929-936, with parseInt(pageInput.value) = n
handlePageInputChange(n) ==
    /\ IF n >= 1 /\ n <= totalPages
       THEN /\ pageFlip' = goToPage(n).pf
            /\ currentPage' = goToPage(n).cp
       ELSE UNCHANGED <<pageFlip, currentPage>>
    /\ lastOp' = Op("pageInput", n)
    /\ UNCHANGED <<pdfDoc, totalPages, isDoublePageMode, isMobile, pageCache,
                   pageTexts, basePageWidth, basePageHeight, searchVars, zoomVars,
                   pages, underneath, tasks, inits, envVars, uiVars, history>>

\* goToNextPage / goToPrevPage, lines 909-919 (dir = 1 / -1)
FlipBy(dir) ==
    /\ pageFlip' = IF pageFlip.st = "null" THEN pageFlip
                   ELSE EngineFlip(pageFlip, IF dir = 1 THEN NextIndex(pageFlip)
                                                        ELSE PrevIndex(pageFlip))
    /\ lastOp' = Op("flipBy", dir)
    /\ UNCHANGED <<stateVars, searchVars, zoomVars, pages, underneath, tasks, inits,
                   envVars, uiVars, history>>

\* showPageUnderneath, lines 562-592
showPageUnderneath(currentIndex) ==
    LET nextRightPageNum == currentIndex * 2 + 3
    IN  IF nextRightPageNum > totalPages THEN underneath
        ELSE IF nextRightPageNum \in DOMAIN pages
                /\ pages[nextRightPageNum].canvas # NoCanvas
        THEN [page |-> nextRightPageNum, shown |-> TRUE]
        ELSE underneath

\* the pages the changeState handler asks for, lines 545-552
AheadPages(currentIndex, n) ==
    SelectSeq([i \in 1..lookAhead |-> currentIndex + 1 + i],
              LAMBDA q : q >= 1 /\ q <= n)

\* The engine starts a turn and emits changeState('flipping' / 'user_fold'):
\* the handler of lines 533-554.
TurnStart ==
    /\ pageFlip.st = "turning"
    /\ pageFlip' = [pageFlip EXCEPT !.st = "flipping"]
    /\ underneath' = IF isDoublePageMode THEN showPageUnderneath(pageFlip.index)
                     ELSE underneath
    /\ LET r == RunAll(pages, AheadPages(pageFlip.index, totalPages),
                       CurCtx(pageCache, history.completed), "fetch", "none")
       IN  /\ pages' = r.pages
           /\ tasks' = tasks \cup r.tasks
           /\ lastOp' = OpCalls("turnStart", pageFlip.index, r.calls)
           /\ history' = NoteCalls(history, r.calls)
    /\ UNCHANGED <<stateVars, searchVars, zoomVars, inits, envVars, uiVars>>

\* The turn completes: the engine emits flip(e.data = its new index), handled
\* by lines 523-530, then changeState('read'), handled by lines 556-559.
TurnComplete ==
    /\ pageFlip.st = "flipping"
    /\ LET idx == SpreadStart(pageFlip.target, pageFlip.double)
           r == RunChain(pages, PagesToRender(idx, isDoublePageMode, totalPages),
                         CurCtx(pageCache, history.completed), "vis", "none")
       IN  /\ pageFlip' = [pageFlip EXCEPT !.st = "read", !.index = idx]
           /\ currentPage' = idx + 1
           /\ hash' = <<idx + 1>>
           /\ pages' = r.pages
           /\ tasks' = tasks \cup r.tasks
           /\ lastOp' = OpCalls("flip", idx, r.calls)
           /\ history' = NoteCalls(history, r.calls)
    /\ underneath' = [underneath EXCEPT !.shown = FALSE]
    /\ UNCHANGED <<pdfDoc, totalPages, isDoublePageMode, isMobile, pageCache,
                   pageTexts, basePageWidth, basePageHeight, searchVars, zoomVars,
                   inits, innerWidth, innerHeight, resizeTimer, uiVars>>

PageInputs == (0 - 1)..(MaxPages + 1)

(* ------------------------------- search ------------------------------- *)

\* the % operator of JavaScript
JsMod(a, b) == IF a >= 0 THEN a % b ELSE 0 - ((0 - a) % b)

\* the loop of lines 967-972 stopping one page early
MatchingPages_dropLast(texts, query, i, n) ==
    SelectSeq([k \in 1..(n - 1) |-> k],
              LAMBDA k : k \in DOMAIN texts /\ Includes(texts[k], query))

\* lines 967-972: the pages 1..n whose text entry contains the query
RECURSIVE MatchingPages(_, _, _, _)
MatchingPages(texts, query, i, n) ==
    IF i > n THEN << >>
    ELSE LET pageText == IF i \in DOMAIN texts THEN texts[i] ELSE << >>
         IN  (IF Includes(pageText, query) THEN <<i>> ELSE << >>)
                 \o MatchingPages(texts, query, i + 1, n)

\* clearSearchHighlights leaving the marks in place
clearSearchHighlights_keeps(pg) == pg

\* clearSearchHighlights, lines 986-989
clearSearchHighlights(pg) == [p \in DOMAIN pg |-> [pg[p] EXCEPT !.hl = {}]]

\* highlightSearchMatches, lines 991-1004: a span is <<layer, item>>
MatchingSpans(p, layers, query) ==
    UNION {{<<l, k>> : k \in {j \in 1..Len(DocItems(layers[l], p)) :
                                Includes(LowerStr(DocItems(layers[l], p)[j]), query)}} :
           l \in 1..Len(layers)}

highlightSearchMatches(pg, query) ==
    IF query = << >> THEN pg
    ELSE [p \in DOMAIN pg |->
            [pg[p] EXCEPT !.hl = @ \cup MatchingSpans(p, pg[p].layers, query)]]

\* a pending setTimeout(() => highlightSearchMatches(...), 100): handleSearch
\* captures its query, the result stepping reads state.currentSearchQuery late
TimerOf(query) == [cur |-> FALSE, q |-> query]
TimerCurrent == [cur |-> TRUE, q |-> << >>]

\* handleSearch, lines 950-984, with elements.searchInput.value = raw; the
\* step is recorded as "searchCleared" for a query that is empty once
\* lowercased and trimmed, as "search" otherwise
handleSearch(raw) ==
    LET query == Trim(LowerStr(raw))
        found == MatchingPages(pageTexts, query, 1, totalPages)
    IN  /\ pages' = clearSearchHighlights(pages)
        /\ IF query = << >>
           THEN /\ searchResults' = << >>
                /\ currentSearchIndex' = 0 - 1
                /\ currentSearchQuery' = << >>
                /\ searchStatus' = StatusEmpty
                /\ UNCHANGED <<pageFlip, currentPage, timers>>
           ELSE /\ currentSearchQuery' = query
                /\ searchResults' = found
                /\ IF Len(found) > 0
                   THEN /\ currentSearchIndex' = 0
                        /\ pageFlip' = goToPage(found[1]).pf
                        /\ currentPage' = goToPage(found[1]).cp
                        /\ searchStatus' = <<1, Len(found)>>
                        /\ timers' = timers \cup {TimerOf(query)}
                   ELSE /\ currentSearchIndex' = 0 - 1
                        /\ searchStatus' = StatusNone
                        /\ UNCHANGED <<pageFlip, currentPage, timers>>
        /\ lastOp' = Op(IF query = << >> THEN "searchCleared" ELSE "search", Len(raw))
        /\ history' = [history EXCEPT
                          !.late = /\ Len(found) > 0
                                   /\ found[1] \in DOMAIN pages
                                   /\ pages[found[1]].layers = << >>]
        /\ UNCHANGED <<pdfDoc, totalPages, isDoublePageMode, isMobile, pageCache,
                       pageTexts, basePageWidth, basePageHeight, zoomVars, underneath,
                       tasks, inits, envVars, uiVars>>

nextCursor(cursor, length) == JsMod(cursor + 1, length)

\* the previous cursor without the + length
prevCursor_noWrap(cursor, length) == JsMod(cursor - 1, length)

prevCursor(cursor, length) == JsMod(cursor - 1 + length, length)

\* state.searchResults[cursor]; undefined (here 0) fails goToPage's range test
ResultAt(cursor) ==
    IF cursor + 1 \in 1..Len(searchResults) THEN searchResults[cursor + 1] ELSE 0

\* goToNextSearchResult / goToPrevSearchResult, lines 1006-1022
StepSearchResult(name, cursor) ==
    /\ IF Len(searchResults) = 0
       THEN UNCHANGED <<currentSearchIndex, pageFlip, currentPage, searchStatus, timers>>
       ELSE /\ currentSearchIndex' = cursor
            /\ pageFlip' = goToPage(ResultAt(cursor)).pf
            /\ currentPage' = goToPage(ResultAt(cursor)).cp
            /\ searchStatus' = <<cursor + 1, Len(searchResults)>>
            /\ timers' = timers \cup {TimerCurrent}
    /\ lastOp' = Op(name, 0)
    /\ history' = [history EXCEPT
                      !.late = /\ ResultAt(cursor) \in DOMAIN pages
                               /\ pages[ResultAt(cursor)].layers = << >>]
    /\ UNCHANGED <<pdfDoc, totalPages, isDoublePageMode, isMobile, pageCache,
                   pageTexts, basePageWidth, basePageHeight, searchResults,
                   currentSearchQuery, zoomVars, pages, underneath, tasks, inits,
                   envVars, uiVars>>

goToNextSearchResult ==
    StepSearchResult("searchNext",
                     IF Len(searchResults) = 0 THEN 0
                     ELSE nextCursor(currentSearchIndex, Len(searchResults)))

goToPrevSearchResult ==
    StepSearchResult("searchPrev",
                     IF Len(searchResults) = 0 THEN 0
                     ELSE prevCursor(currentSearchIndex, Len(searchResults)))

\* a highlight timer fires
HighlightFire(tm) ==
    /\ tm \in timers
    /\ timers' = timers \ {tm}
    /\ pages' = highlightSearchMatches(pages, IF tm.cur THEN currentSearchQuery ELSE tm.q)
    /\ lastOp' = Op("highlight", 0)
    /\ UNCHANGED <<stateVars, searchResults, currentSearchIndex, currentSearchQuery,
                   searchStatus, zoomVars, pageFlip, underneath, tasks, inits,
                   envVars, uiVars, history>>

\* The input handler is debounced by 300 ms (line 174) and its highlight
\* timer runs after 100 ms (line 979): the timer of one handleSearch has
\* fired before the next handleSearch runs.
SearchDebounced == \A tm \in timers : tm.cur

(* ---------------------------- zoom and pan ---------------------------- *)

\* The loading overlay covers the page: files are chosen and keys are
\* pressed while it is hidden, and the toolbar and the book are operated
\* while the viewer is shown as well.
UserReady == ~loading
ToolbarReady == viewer /\ ~loading

\* zoom is kept in hundredths (1.0 = 100); the steps 0.25 and 0.15 and the
\* pinch ratios drawn below keep every value a whole number of hundredths
Clamp(z) == Min(Max(z, minZoom), maxZoom)

\* zoomIn adding its step without the Math.min
zoomInOf_noClamp(z) == IF z < maxZoom THEN z + zoomStep ELSE z

zoomInOf(z) == IF z < maxZoom THEN Min(z + zoomStep, maxZoom) ELSE z      \* 1084-1089
zoomOutOf(z) == IF z > minZoom THEN Max(z - zoomStep, minZoom) ELSE z     \* 1091-1096
wheelOf(z, deltaY) == Clamp(z + (IF deltaY > 0 THEN 0 - zoomSpeed ELSE zoomSpeed))
pinchOf(z0, distance, d0) == Clamp((z0 * distance) \div d0)               \* 834-835

\* the run of consecutive zoomIn calls that started at zoom 1.0
RunAfterZoomIn ==
    IF zoom = 100 THEN 1
    ELSE IF history.zoomRun \in 1..(ZoomInCalls - 1) THEN history.zoomRun + 1
    ELSE 0

ZoomFrame == UNCHANGED <<stateVars, searchVars, domVars, envVars, uiVars>>

zoomIn ==
    /\ zoom' = zoomInOf(zoom)
    /\ history' = [history EXCEPT !.zoomRun = RunAfterZoomIn]
    /\ lastOp' = Op("zoomIn", 0)
    /\ UNCHANGED <<panX, panY, pinch, pointer>>
    /\ ZoomFrame

zoomOut ==
    /\ zoom' = zoomOutOf(zoom)
    /\ history' = [history EXCEPT !.zoomRun = 0]
    /\ lastOp' = Op("zoomOut", 0)
    /\ UNCHANGED <<panX, panY, pinch, pointer>>
    /\ ZoomFrame

\* the wheel listener, lines 753-767
Wheel(deltaY) ==
    /\ zoom' = wheelOf(zoom, deltaY)
    /\ history' = [history EXCEPT !.zoomRun = 0]
    /\ lastOp' = Op("wheel", deltaY)
    /\ UNCHANGED <<panX, panY, pinch, pointer>>
    /\ ZoomFrame

\* toggleZoom, lines 891-903
toggleZoom ==
    /\ zoom' = IF zoom = 100 THEN toggleZoomLevel ELSE 100
    /\ panX' = 0
    /\ panY' = 0
    /\ history' = [history EXCEPT !.zoomRun = 0]
    /\ lastOp' = Op("toggleZoom", 0)
    /\ UNCHANGED <<pinch, pointer>>
    /\ ZoomFrame

\* resetZoom going back to the first page as well
resetZoom_firstPage ==
    /\ zoom # 100 \/ panX # 0 \/ panY # 0
    /\ zoom' = 100
    /\ panX' = 0
    /\ panY' = 0
    /\ currentPage' = 1
    /\ history' = [history EXCEPT !.zoomRun = 0]
    /\ lastOp' = Op("resetZoom", 0)
    /\ UNCHANGED <<pdfDoc, totalPages, isDoublePageMode, isMobile, pageCache,
                   pageTexts, basePageWidth, basePageHeight, pinch, pointer,
                   searchVars, domVars, envVars, uiVars>>

\* resetZoom, lines 1098-1103, reached from Escape (lines 1201-1204)
resetZoom ==
    /\ zoom # 100 \/ panX # 0 \/ panY # 0
    /\ zoom' = 100
    /\ panX' = 0
    /\ panY' = 0
    /\ history' = [history EXCEPT !.zoomRun = 0]
    /\ lastOp' = Op("resetZoom", 0)
    /\ UNCHANGED <<pinch, pointer>>
    /\ ZoomFrame

\* two-finger touches: the distance between them and the x of their centre;
\* the same values serve as the clientX of a mouse event or of one finger
PinchStartDistances == {100}
PinchMoveDistances == {10, 100, 200, 1000}
PinchCentres == {0, 10}
PanLimit == 10 * MaxPanSteps

\* handleTouchStart / handleTouchMove, lines 1370-1403: these listeners run in
\* the capture phase on #magazine-container, ahead of the listeners of lines
\* 814-854 (bubble phase, same element) and of the engine's (on the book
\* inside it); an event they stop reaches neither.
TouchStopped(n) == n > 1 \/ (pointer.isMobilePanMode /\ n = 1)

\* history after a mouse or touch event
NoteEvent(pan, release, stopped) ==
    [history EXCEPT
        !.gesture = IF release THEN (IF @ = "pan" THEN "ended" ELSE "none")
                    ELSE IF pan \/ @ = "pan" THEN "pan" ELSE "none",
        !.delivered = ~stopped]

\* touchstart with two touches: handleTouchStart (lines 1370-1381), then,
\* unless stopped, the listener of lines 814-824
PinchStart(distance, centre) ==
    /\ pinch' = IF TouchStopped(2) THEN pinch
                ELSE [dist |-> distance, zoom |-> zoom, cx |-> centre, px |-> panX]
    /\ pointer' = [pointer EXCEPT !.touches = 2]
    /\ history' = [NoteEvent(TRUE, FALSE, TouchStopped(2)) EXCEPT
                      !.pinch0 = [dist |-> distance, zoom |-> zoom, cx |-> centre,
                                  px |-> panX]]
    /\ lastOp' = Op("pinchStart", 0)
    /\ UNCHANGED <<zoom, panX, panY>>
    /\ ZoomFrame

\* touchmove with two touches: handleTouchMove (lines 1383-1387), then, unless
\* stopped, the listener of lines 826-846; the step is recorded as "pinchMove"
\* when the centre is where the gesture started, as "pinchPan" otherwise
PinchMove(distance, centre) ==
    LET ran == ~TouchStopped(2)
        x == IF ran THEN pinch.px + (centre - pinch.cx) ELSE panX
    IN  /\ Abs(x) <= PanLimit
        /\ zoom' = IF ran /\ pinch.dist > 0
                   THEN pinchOf(pinch.zoom, distance, pinch.dist) ELSE zoom
        /\ panX' = x
        /\ history' = [NoteEvent(TRUE, FALSE, TouchStopped(2)) EXCEPT !.zoomRun = 0]
        /\ lastOp' = Op(IF centre = history.pinch0.cx THEN "pinchMove" ELSE "pinchPan",
                        distance)
        /\ UNCHANGED <<panY, pinch, pointer>>
        /\ ZoomFrame

\* touchstart with one touch at clientX = x: handleTouchStart; the listener
\* of lines 814-824 does nothing for one touch
TouchStartOne(x) ==
    /\ pointer' = [pointer EXCEPT
                      !.touches = 1,
                      !.lastTouchX = IF pointer.isMobilePanMode THEN x ELSE @]
    /\ history' = NoteEvent(pointer.isMobilePanMode, FALSE, TouchStopped(1))
    /\ lastOp' = Op("touchstart", x)
    /\ UNCHANGED <<zoom, panX, panY, pinch>>
    /\ ZoomFrame

\* touchmove with one touch at clientX = x: handleTouchMove, lines 1383-1403;
\* the branch of lines 847-853 is not reached in pan mode and does nothing
\* outside it
TouchMoveOne(x) ==
    LET px == IF pointer.isMobilePanMode THEN panX + (x - pointer.lastTouchX) ELSE panX
    IN  /\ Abs(px) <= PanLimit
        /\ panX' = px
        /\ pointer' = [pointer EXCEPT
                          !.lastTouchX = IF pointer.isMobilePanMode THEN x ELSE @]
        /\ history' = NoteEvent(pointer.isMobilePanMode, FALSE, TouchStopped(1))
        /\ lastOp' = Op("touchmove", x)
        /\ UNCHANGED <<zoom, panY, pinch>>
        /\ ZoomFrame

\* touchend / touchcancel leaving n touches: handleTouchEnd, lines 1405-1417
TouchEnd(n) ==
    /\ pointer' = [pointer EXCEPT !.touches = n]
    /\ history' = NoteEvent(FALSE, n = 0, pointer.isMobilePanMode)
    /\ lastOp' = Op("touchend", n)
    /\ UNCHANGED <<zoom, panX, panY, pinch>>
    /\ ZoomFrame

\* the click listener of #mob-pan-toggle, lines 1350-1363
togglePanMode ==
    /\ pointer' = [pointer EXCEPT !.isMobilePanMode = ~@]
    /\ lastOp' = Op("panMode", 0)
    /\ UNCHANGED <<zoom, panX, panY, pinch, history>>
    /\ ZoomFrame

\* mousedown of the right button at clientX = x, lines 770-781 (capture phase
\* on .wooden-table, which holds the book)
MouseDownRight(x) ==
    /\ pointer' = [pointer EXCEPT !.isPanning = TRUE, !.startPanX = x - panX]
    /\ history' = NoteEvent(TRUE, FALSE, TRUE)
    /\ lastOp' = Op("mousedown", x)
    /\ UNCHANGED <<zoom, panX, panY, pinch>>
    /\ ZoomFrame

\* mousemove at clientX = x: the document listener of lines 792-799, which
\* stops nothing
MouseMove(x) ==
    LET px == IF pointer.isPanning THEN x - pointer.startPanX ELSE panX
    IN  /\ Abs(px) <= PanLimit
        /\ panX' = px
        /\ history' = NoteEvent(FALSE, FALSE, FALSE)
        /\ lastOp' = Op("mousemove", x)
        /\ UNCHANGED <<zoom, panY, pinch, pointer>>
        /\ ZoomFrame

\* mouseup of the right button over the table, lines 784-790
MouseUpRight ==
    /\ pointer' = [pointer EXCEPT !.isPanning = FALSE]
    /\ history' = NoteEvent(FALSE, TRUE, pointer.isPanning)
    /\ lastOp' = Op("mouseup", 0)
    /\ UNCHANGED <<zoom, panX, panY, pinch>>
    /\ ZoomFrame

\* The x of the transform origin of #magazine-container: the container is
\* centred in the window and the origin is the centre of its box.
OriginX == innerWidth \div 2

\* updateTransform, lines 875-879: under translate(p) scale(z) the content
\* point shown at screen x = c is OriginX + (c - OriginX - p) / z.  The point
\* shown at c under (z0, p0) is shown under (z1, p1) at a distance from c of
\* AnchorDrift / z0.
AnchorDrift(c, z0, p0, z1, p1) ==
    Abs(z0 * (OriginX + p1 - c) + z1 * (c - OriginX - p0))

ZoomNext ==
    \/ ToolbarReady /\ zoomIn
    \/ ToolbarReady /\ zoomOut
    \/ \E deltaY \in {0 - 100, 100} : ToolbarReady /\ Wheel(deltaY)
    \/ ToolbarReady /\ toggleZoom
    \/ UserReady /\ resetZoom
    \/ \E d \in PinchStartDistances, c \in PinchCentres :
          ToolbarReady /\ pointer.touches = 0 /\ PinchStart(d, c)
    \/ \E d \in PinchMoveDistances, c \in PinchCentres :
          ToolbarReady /\ pointer.touches = 2 /\ PinchMove(d, c)
    \/ ToolbarReady /\ pointer.touches = 2 /\ TouchEnd(0)

(* ---------------------------- specification --------------------------- *)

LoadIds == {"url", "file"}

\* At most MaxTasks renders and flipbook rebuilds are in flight.
Room == Cardinality(tasks) + Cardinality(inits) < MaxTasks

LoadSteps ==
    \/ \E L \in LoadIds : LoadOpened(L)
    \/ \E L \in LoadIds : LoadFailed(L)
    \/ \E L \in LoadIds : ExtractStep(L)
    \/ LoadDelayDone
    \/ \E c \in inits : InitFlipbookResume(c)

RenderNext ==
    \/ \E t \in tasks : TaskRenderDone(t)
    \/ \E t \in tasks : TaskTextDone(t)

Upload == \E d \in Docs \cup {BadDoc} : UserReady /\ StartUpload(d)

\* Loading a document, replacing it from the toolbar, and the renders.
Next ==
    \/ LoadSteps
    \/ RenderNext
    \/ Upload

Spec == Init /\ [][Next]_vars

\* Layout toggles, started without a page fragment.
ToggleInit == Init /\ hash = NoHash

ToggleNext ==
    \/ LoadSteps
    \/ RenderNext
    \/ ToolbarReady /\ Room /\ toggleViewMode

SpecToggle == ToggleInit /\ [][ToggleNext]_vars

\* Fewer than MaxRelayoutTasks renders and flipbook rebuilds are in flight.
RelayoutRoom == Cardinality(tasks) + Cardinality(inits) < MaxRelayoutTasks

\* Loading a long document, replacing it from the toolbar, and the renders.
LongInit == InitOf(LongDoc)

SpecLong == LongInit /\ [][Next]_vars

\* Window resizes and layout toggles, started without a page fragment.
ResizeInit == Init /\ hash = NoHash

ResizeNext ==
    \/ LoadSteps
    \/ RenderNext
    \/ \E w \in Widths : WindowResize(w)
    \/ RelayoutRoom /\ handleResize
    \/ ToolbarReady /\ RelayoutRoom /\ toggleViewMode

SpecResize == ResizeInit /\ [][ResizeNext]_vars

\* Page turns while the flipbook is rebuilt after a layout toggle, on a wide
\* window: the renders of a turn run beside those of renderVisiblePages.
TurnInit == Init /\ hash = NoHash /\ innerWidth = 1400

TurnNext ==
    \/ LoadSteps
    \/ RenderNext
    \/ ToolbarReady /\ RelayoutRoom /\ toggleViewMode
    \/ \E dir \in {0 - 1, 1} : UserReady /\ Room /\ FlipBy(dir)
    \/ TurnStart
    \/ TurnComplete

SpecTurn == TurnInit /\ [][TurnNext]_vars

\* Page navigation over the initial document.
NavNext ==
    \/ LoadSteps
    \/ RenderNext
    \/ Upload
    \/ \E n \in PageInputs : UserReady /\ GoToPage(n)
    \/ \E n \in PageInputs : ToolbarReady /\ handlePageInputChange(n)
    \/ \E dir \in {0 - 1, 1} : UserReady /\ FlipBy(dir)
    \/ TurnStart
    \/ TurnComplete

SpecNav == Init /\ [][NavNext]_vars

\* Search over the initial document.
SearchInit == Init /\ hash = NoHash

SearchNext ==
    \/ LoadSteps
    \/ RenderNext
    \/ \E raw \in RawQueries : ToolbarReady /\ SearchDebounced /\ handleSearch(raw)
    \/ ToolbarReady /\ goToNextSearchResult
    \/ ToolbarReady /\ goToPrevSearchResult
    \/ \E tm \in timers : HighlightFire(tm)
    \/ TurnStart
    \/ TurnComplete

SpecSearch == SearchInit /\ [][SearchNext]_vars

\* Zoom and pan over the initial document on a wide window.
ZoomInit == Init /\ hash = NoHash /\ innerWidth = 1400

ZoomPanNext ==
    \/ LoadSteps
    \/ RenderNext
    \/ ZoomNext

SpecZoom == ZoomInit /\ [][ZoomPanNext]_vars

\* Mouse and touch gestures over the initial document and the ones uploaded
\* over it between gestures: one pointer at a time, the events of a gesture in
\* their order.
GestureNext ==
    \/ LoadSteps
    \/ RenderNext
    \/ pointer.touches = 0 /\ ~pointer.isPanning /\ ~pointer.isMobilePanMode /\ Upload
    \/ UserReady /\ resetZoom
    \/ ToolbarReady /\ pointer.touches = 0 /\ ~pointer.isPanning /\ togglePanMode
    \/ \E x \in PinchCentres :
          ToolbarReady /\ pointer.touches = 0 /\ ~pointer.isPanning /\ MouseDownRight(x)
    \/ \E x \in PinchCentres : ToolbarReady /\ pointer.touches = 0 /\ MouseMove(x)
    \/ ToolbarReady /\ pointer.isPanning /\ MouseUpRight
    \/ \E x \in PinchCentres :
          ToolbarReady /\ pointer.touches = 0 /\ ~pointer.isPanning /\ TouchStartOne(x)
    \/ \E x \in PinchCentres : ToolbarReady /\ pointer.touches = 1 /\ TouchMoveOne(x)
    \/ \E d \in PinchStartDistances, c \in PinchCentres :
          ToolbarReady /\ pointer.touches = 1 /\ PinchStart(d, c)
    \/ \E d \in PinchMoveDistances, c \in PinchCentres :
          ToolbarReady /\ pointer.touches = 2 /\ PinchMove(d, c)
    \/ \E n \in {0, 1} : ToolbarReady /\ pointer.touches = n + 1 /\ TouchEnd(n)

SpecGesture == ZoomInit /\ [][GestureNext]_vars

\* Search next to one layout toggle and to uploads: the layout is toggled and
\* a file is chosen while nothing is in flight, the search box is used at any
\* time the toolbar shows.
SessionNext ==
    \/ LoadSteps
    \/ RenderNext
    \/ RelayoutRoom /\ Upload
    \/ ToolbarReady /\ RelayoutRoom /\ isDoublePageMode /\ toggleViewMode
    \/ \E raw \in {<<"B">>} : ToolbarReady /\ SearchDebounced /\ handleSearch(raw)
    \/ ToolbarReady /\ RelayoutRoom /\ timers = {} /\ goToNextSearchResult
    \/ \E tm \in timers : HighlightFire(tm)
    \/ TurnStart
    \/ TurnComplete

SpecSession == TurnInit /\ [][SessionNext]_vars

\* The book is at rest: the toolbar shows and no render, rebuild, highlight
\* timer or turn is pending.
NavQuiet == ToolbarReady /\ RelayoutRoom /\ timers = {} /\ pageFlip.st = "read"

\* No mouse or touch gesture has been made and the view is not panned.
Pristine ==
    /\ panX = 0 /\ pointer = NoPointer
    /\ history.gesture = "none" /\ history.pinch0 = NoPinch

\* Zoom, pan, navigation, search and one layout toggle in one session: the
\* view is zoomed and panned while the book is at rest, a zoom step is taken
\* at zoom 1 and a gesture on the untouched view, and the pages are operated
\* between gestures while nothing is in flight.
ViewNext ==
    \/ LoadSteps
    \/ RenderNext
    \/ NavQuiet /\ Pristine /\ zoom = 100 /\ zoomIn
    \/ NavQuiet /\ Pristine /\ zoom = 100 /\ zoomOut
    \/ \E deltaY \in {0 - 100, 100} : NavQuiet /\ Pristine /\ zoom = 100 /\ Wheel(deltaY)
    \/ NavQuiet /\ pointer.touches = 0 /\ ~pointer.isPanning /\ toggleZoom
    \/ NavQuiet /\ pointer.touches = 0 /\ ~pointer.isPanning /\ resetZoom
    \/ \E d \in PinchStartDistances, c \in PinchCentres : NavQuiet /\ Pristine /\ PinchStart(d, c)
    \/ \E d \in PinchMoveDistances, c \in PinchCentres :
          NavQuiet /\ pointer.touches = 2 /\ PinchMove(d, c)
    \/ NavQuiet /\ pointer.touches = 2 /\ TouchEnd(0)
    \/ \E x \in PinchCentres : NavQuiet /\ Pristine /\ MouseDownRight(x)
    \/ \E x \in PinchCentres : NavQuiet /\ pointer.isPanning /\ MouseMove(x)
    \/ NavQuiet /\ pointer.isPanning /\ MouseUpRight
    \/ \E n \in 1..MaxPages :
          UserReady /\ RelayoutRoom /\ pointer.touches = 0 /\ ~pointer.isPanning /\ GoToPage(n)
    \/ \E raw \in {<<"B">>} :
          /\ ToolbarReady /\ RelayoutRoom /\ SearchDebounced
          /\ pointer.touches = 0 /\ ~pointer.isPanning
          /\ handleSearch(raw)
    \/ \E tm \in timers : HighlightFire(tm)
    \/ /\ ToolbarReady /\ RelayoutRoom /\ isDoublePageMode
       /\ pointer.touches = 0 /\ ~pointer.isPanning
       /\ toggleViewMode
    \/ TurnStart
    \/ TurnComplete

SpecView == TurnInit /\ [][ViewNext]_vars

\* A file chosen or dropped while loadPdfFromUrl of init is still opening the
\* document or extracting its text: handleFileUpload and handleDrop start
\* loadPdf whatever else is running.
OverlapNext ==
    \/ LoadSteps
    \/ RenderNext
    \/ \E d \in Docs \cup {BadDoc} :
          loads.url.pc \in {"open", "extract"} /\ loads.file.pc = "idle" /\ StartUpload(d)

SpecOverlap == TurnInit /\ [][OverlapNext]_vars

\* Turning the pages of a rendered book of 1..SpreadMaxPages pages, at rest
\* on its first page in either layout.
SpreadDims(double) ==
    PlanDims(1400, 772 - toolbarHeight, double, AspectOf(UrlDoc))

RenderedPage(i, double) ==
    [NewPage(double) EXCEPT
        !.canvas = IF RenderFails(UrlDoc, i)
                   THEN createErrorPage(SpreadDims(double).w, SpreadDims(double).h)
                   ELSE Canvas(UrlDoc, i, SpreadDims(double).w, SpreadDims(double).h),
        !.layers = <<UrlDoc>>,
        !.back = IF double THEN "none" ELSE "filled"]

SpreadInit ==
    /\ innerWidth = 1400 /\ innerHeight = 772 /\ hash = NoHash
    /\ resizeTimer = FALSE
    /\ pdfDoc = UrlDoc
    /\ totalPages \in 1..SpreadMaxPages
    /\ currentPage = 1
    /\ isMobile = FALSE
    /\ isDoublePageMode \in BOOLEAN
    /\ zoom = 100 /\ panX = 0 /\ panY = 0
    /\ pageCache = {}
    /\ searchResults = << >>
    /\ currentSearchIndex = 0 - 1
    /\ currentSearchQuery = << >>
    /\ pageTexts = EmptyMap
    /\ basePageWidth = SpreadDims(isDoublePageMode).w
    /\ basePageHeight = SpreadDims(isDoublePageMode).h
    /\ pageFlip = [st |-> "read", index |-> 0, target |-> 0, double |-> isDoublePageMode]
    /\ pages = [i \in 1..totalPages |-> RenderedPage(i, isDoublePageMode)]
    /\ underneath = NoUnderneath
    /\ tasks = {}
    /\ inits = {}
    /\ loads = [url |-> IdleLoad, file |-> IdleLoad]
    /\ searchStatus = StatusEmpty
    /\ timers = {}
    /\ pinch = NoPinch
    /\ pointer = NoPointer
    /\ loading = FALSE /\ viewer = TRUE /\ toast = ""
    /\ lastOp = Op("init", 0)
    /\ history = [NoHistory EXCEPT !.layoutW = 1400]

SpreadNext ==
    \/ \E dir \in {0 - 1, 1} : UserReady /\ FlipBy(dir)
    \/ \E n \in 1..SpreadMaxPages : UserReady /\ GoToPage(n)
    \/ TurnStart
    \/ TurnComplete

SpecSpread == SpreadInit /\ [][SpreadNext]_vars

(* ------------------------------ properties ----------------------------- *)

LoadsIdle == \A L \in LoadIds : loads[L].pc = "idle"

\* C1: a renderPage call for a key (p, w, h) whose earlier call has completed,
\* with no cache clear in between, is a cache hit and starts no decoder work.
C1_SecondCallHits ==
    \A i \in 1..Len(lastOp.calls) : lastOp.calls[i].again => lastOp.calls[i].hit

\* C2: once a load has finished, no page surface shows and no cache entry
\* holds an artifact rasterized from a document other than the current one.
C2_NoOldArtifacts ==
    (LoadsIdle /\ pdfDoc # 0) =>
        /\ \A e \in pageCache : e.art.doc = pdfDoc
        /\ \A p \in DOMAIN pages : pages[p].canvas.doc \in {0, pdfDoc}

\* C3 as stated: the cache is empty when an accepted toggle returns, and the
\* first renderPage call after it is a miss.
C3_FirstRenderMisses ==
    /\ (lastOp.op = "toggleViewMode" /\ pdfDoc # 0) => pageCache = {}
    /\ history.afterToggle # "hit"

\* C3: the cache is empty when an accepted toggle returns, and the first
\* renderPage call after it is a miss unless a render that was in flight at
\* the toggle completed and wrote its entry before that call.
C3_EmptyAfterToggle ==
    /\ (lastOp.op = "toggleViewMode" /\ pdfDoc # 0) => pageCache = {}
    /\ history.afterToggle = "hit" => history.staleWrite

C3_Witness ==
    /\ pdfDoc # 0
    /\ history.afterToggle = "miss"
    /\ lastOp.op = "initFlipbook"

\* C4: goToPage(n) with n < 1 or n > pageCount, called directly or from the
\* page input, changes neither state.currentPage nor the engine.
C4_OutOfRangeIgnored ==
    [][\A n \in PageInputs :
          ((n < 1 \/ n > totalPages) /\ (GoToPage(n) \/ handlePageInputChange(n)))
              => UNCHANGED <<currentPage, pageFlip>>]_vars

C4_Witness ==
    /\ lastOp.op = "goToPage"
    /\ lastOp.n > totalPages
    /\ pageFlip.st = "read"
    /\ currentPage \in 1..totalPages

\* C5: with a document loaded, 1 <= currentPage <= pageCount.
C5_CurrentPageInRange ==
    pdfDoc # 0 => (1 <= currentPage /\ currentPage <= totalPages)

\* the tolerance of the anchoring property, in pixels
Epsilon == 1

\* the spread of page p in a book of n pages under the pairing rule
PairingSpread(p, n) ==
    IF p = 1 THEN {1}
    ELSE IF p % 2 = 0 THEN (IF p = n THEN {p} ELSE {p, p + 1})
    ELSE {p - 1, p}

\* C6: in double mode the spread renderVisiblePages computes for the settled
\* page is that page's spread under the pairing rule, with every member in
\* 1..pageCount.
C6_SpreadFollowsPairing ==
    (pageFlip.st = "read" /\ isDoublePageMode) =>
        LET spread == VisibleSpread(pageFlip.index, TRUE)
            members == {spread[i] : i \in 1..Len(spread)}
        IN  /\ members = PairingSpread(pageFlip.index + 1, totalPages)
            /\ members \subseteq 1..totalPages

TextOf(p) == IF p \in DOMAIN pageTexts THEN pageTexts[p] ELSE << >>

\* C7: for a query q that is non-empty once lowercased and trimmed,
\* handleSearch leaves exactly the pages of 1..pageCount whose text entry
\* contains q, ascending and without duplicates; with a result the cursor is
\* 0 and the current page is the first result, without one the cursor is -1,
\* the no-results status shows and the current page is unchanged.
C7_SearchResults ==
    [][lastOp'.op = "search" =>
              LET q == currentSearchQuery'
                  res == searchResults'
              IN  /\ q # << >> /\ q = Trim(LowerStr(q))
                  /\ \A p \in 1..totalPages :
                        (\E i \in 1..Len(res) : res[i] = p) <=> Includes(TextOf(p), q)
                  /\ \A i \in 1..Len(res) : res[i] \in 1..totalPages
                  /\ \A i \in 1..(Len(res) - 1) : res[i] < res[i + 1]
                  /\ IF res # << >>
                     THEN /\ currentSearchIndex' = 0
                          /\ currentPage' = res[1]
                     ELSE /\ currentSearchIndex' = 0 - 1
                          /\ searchStatus' = StatusNone
                          /\ currentPage' = currentPage]_vars

C7_Witness ==
    /\ lastOp.op = "search"
    /\ Len(searchResults) >= 2
    /\ Len(searchResults) < totalPages
    /\ currentSearchIndex = 0
    /\ currentPage = searchResults[1]

RECURSIVE NextTimes(_, _, _)
NextTimes(cursor, length, k) ==
    IF k = 0 THEN cursor ELSE NextTimes(nextCursor(cursor, length), length, k - 1)

C9_EmptyQueryClears ==
    [][lastOp'.op = "searchCleared" =>
              /\ searchResults' = << >>
              /\ currentSearchIndex' = 0 - 1
              /\ currentSearchQuery' = << >>
              /\ \A p \in DOMAIN pages' : pages'[p].hl = {}
              /\ currentPage' = currentPage]_vars

C9_Witness ==
    /\ lastOp.op = "searchCleared"
    /\ lastOp.n > 0
    /\ searchResults = << >>
    /\ currentSearchIndex = 0 - 1
    /\ currentPage > 1

\* C10: zoom stays within [minZoom, maxZoom] under zoomIn, zoomOut, the
\* wheel, the pinch, toggleZoom and resetZoom; k zoomIn calls in a row from
\* zoom 1.0 give min(1 + 0.25 k, 3.0), so ZoomInCalls of them end at maxZoom.
C10_ZoomClamped ==
    /\ minZoom <= zoom /\ zoom <= maxZoom
    /\ history.zoomRun > 0 => zoom = Min(100 + zoomStep * history.zoomRun, maxZoom)
    /\ history.zoomRun = ZoomInCalls => zoom = maxZoom

C10_Witness ==
    /\ history.zoomRun = ZoomInCalls
    /\ lastOp.op = "zoomIn"
    /\ zoom = maxZoom

\* C11: state.isMobile and state.isDoublePageMode are never both true, after
\* init and any sequence of window resizes across the breakpoint, runs of
\* handleResize and toggleViewMode calls.
C11_MobileImpliesSingle == ~(isMobile /\ isDoublePageMode)

C11_Witness ==
    /\ lastOp.op = "resizeModeChanged"
    /\ isMobile /\ ~isDoublePageMode
    /\ pageFlip.double

\* C12: toggleViewMode called while state.isMobile holds leaves the layout
\* mode, the render cache, the flipbook and the current page unchanged and
\* shows the toast.
C12_MobileToggleRejected ==
    [][(isMobile /\ lastOp'.op \in {"toggleViewMode", "toggleRejected"}) =>
           /\ UNCHANGED <<isDoublePageMode, pageCache, pageFlip, pages, inits,
                          currentPage>>
           /\ toast' = "mobile-no-double"]_vars

C12_Witness ==
    /\ lastOp.op = "toggleRejected"
    /\ isMobile /\ ~isDoublePageMode
    /\ pageCache # {}
    /\ pageFlip.st = "read"
    /\ toast = "mobile-no-double"

\* C13: after a two-finger gesture whose centre c did not move while the
\* finger distance doubled, from a zoom whose double is within the clamp, the
\* zoom has doubled and the content point that was shown at c is shown within
\* Epsilon pixels of c.
C13_PinchAnchored ==
    (/\ lastOp.op = "pinchMove"
     /\ lastOp.n = 2 * history.pinch0.dist
     /\ 2 * history.pinch0.zoom <= maxZoom)
        => /\ zoom = 2 * history.pinch0.zoom
           /\ AnchorDrift(history.pinch0.cx, history.pinch0.zoom, history.pinch0.px,
                          zoom, panX) <= Epsilon * history.pinch0.zoom

\* C14: a page whose getPage or rasterization failed shows a placeholder of
\* the target dimensions, and the failure stops nothing: when the load ends
\* every page of the book holds a bitmap, and only pages the decoder fails
\* on hold a placeholder.
C14_FailureYieldsPlaceholder ==
    /\ \A p \in DOMAIN pages :
          pages[p].canvas.err =>
              /\ pages[p].canvas.w = basePageWidth
              /\ pages[p].canvas.h = basePageHeight
    /\ lastOp.op = "renderFailed" =>
          /\ lastOp.n \in DOMAIN pages
          /\ pages[lastOp.n].canvas = createErrorPage(basePageWidth, basePageHeight)
    /\ (LoadsIdle /\ pdfDoc # 0) =>
          \A p \in 1..totalPages :
              /\ p \in DOMAIN pages
              /\ pages[p].canvas # NoCanvas
              /\ pages[p].canvas.err => RenderFails(pdfDoc, p)

C14_Witness ==
    /\ LoadsIdle
    /\ pdfDoc = UrlDoc
    /\ pages[2].canvas = createErrorPage(basePageWidth, basePageHeight)
    /\ pages[3].canvas = Canvas(UrlDoc, 3, basePageWidth, basePageHeight)
    /\ pages[3].layers # << >>

\* C15: once renderPage(p, w, h) has returned to renderPageContent, the
\* render cache holds an entry for (p, w, h).
C15_ReturnedKeyCached ==
    \A t \in tasks : t.pc = "text" => CacheHas(pageCache, t.page, t.w, t.h)

\* C16: once a load has finished, the text index has an entry for exactly the
\* pages 1..pageCount of the current document: the empty string for a page
\* whose extraction failed, the page's lowercased text otherwise.
C16_TextIndexComplete ==
    (LoadsIdle /\ pdfDoc # 0) =>
        /\ DOMAIN pageTexts = 1..totalPages
        /\ \A p \in 1..totalPages :
              TextOf(p) = IF TextFails(pdfDoc, p) THEN << >>
                          ELSE LowerStr(JoinItems(DocItems(pdfDoc, p)))

C18_ReadyOnceOthersDone ==
    (/\ pdfDoc # 0
     /\ \A L \in LoadIds : loads[L].pc \notin {"open", "extract", "delay"}
     /\ inits = {}
     /\ \A t \in tasks : t.pc = "render" /\ Hangs(t.doc, t.page)
     /\ \A p \in 1..totalPages :
           Hangs(pdfDoc, p) \/ (p \in DOMAIN pages /\ pages[p].canvas # NoCanvas))
        => (~loading /\ viewer)

\* C19: a page surface that has a text-layer overlay attached has a bitmap
\* attached, in every state and for every interleaving of the renders.
C19_OverlayImpliesBitmap ==
    \A p \in DOMAIN pages : pages[p].layers # << >> => pages[p].canvas # NoCanvas

C19_Witness ==
    \E p \in DOMAIN pages :
        /\ Len(pages[p].layers) >= 2
        /\ pages[p].canvas # NoCanvas

\* C20: when handleResize finds the expected page width more than 50 px away
\* from state.basePageWidth, the render cache is empty when it calls
\* initFlipbook.
C20_ResizeClearsCache == lastOp.op = "resizeRelayout" => pageCache = {}

\* C21: from the event that makes a gesture a pan (the mousedown of the right
\* button, the touchstart of one finger in pan mode, the touchstart of a
\* second finger) to the release that ends it, no event of the gesture goes
\* on to the listeners of the page-turn engine.
C21_PanEventsSuppressed ==
    history.gesture \in {"pan", "ended"} => ~history.delivered

\* C22: when the load of a document uploaded over the current one ends with
\* the new document open, and when resetZoom returns, zoom = 1 and
\* pan = (0, 0).
C22_ReloadResetsTransform ==
    [][((\/ loads.file.pc \in {"init", "prerender"} /\ loads'.file.pc = "idle"
         \/ lastOp'.op = "resetZoom")
            => (zoom' = 100 /\ panX' = 0 /\ panY' = 0))]_vars

\* C23: a load whose document cannot be opened ends there: from the call of
\* loadPdf / loadPdfFromUrl to the end of its catch block the document
\* handle, the page count, the render cache, the text index, the current
\* page, the flipbook and its pages are not written, and the catch block
\* hides the loading overlay and shows the error toast.
C23_FailedLoadKeepsSession ==
    [][LET open(L) == loads[L].pc = "open"
           failing == \E L \in LoadIds : open(L) /\ loads'[L].pc \in {"open", "idle"}
           failed == \E L \in LoadIds : open(L) /\ loads'[L].pc = "idle"
       IN  /\ (lastOp'.op = "loadPdf" \/ failing) =>
                  UNCHANGED <<pdfDoc, totalPages, pageCache, pageTexts, currentPage,
                              pageFlip, pages, viewer>>
           /\ failed => (toast' = "load-error" /\ ~loading' /\ LoadsIdle')]_vars

C23_Witness ==
    /\ lastOp.op = "loadFailed"
    /\ lastOp.n = BadDoc
    /\ pdfDoc # 0
    /\ pageCache # {}
    /\ DOMAIN pageTexts # {}
    /\ pageFlip.st = "read"
    /\ toast = "load-error"
    /\ ~loading

\* C24: the handler of a turn start has called renderPageContent for each of
\* the lookAhead pages after the page the turn reaches (the page that
\* state.currentPage names once the turn completes), clipped to the book.
C24_AheadOfReachedPage ==
    lastOp.op = "turnStart" =>
        LET reached == SpreadStart(pageFlip.target, pageFlip.double) + 1
            asked == AheadPages(lastOp.n, totalPages)
        IN  \A q \in (reached + 1)..(reached + lookAhead) :
                q <= totalPages => \E i \in DOMAIN asked : asked[i] = q

\* C25: with the book at rest on page p, the pages renderVisiblePages asks
\* for are the pages of [p - 2, p + 2] (single) or [p - 2, p + 4] (double)
\* that lie in 1..pageCount, the visible spread among them, and once no
\* render is pending each of them has a bitmap.
C25_RenderSetAfterSettle ==
    (pdfDoc # 0 /\ pageFlip.st = "read" /\ inits = {}) =>
        LET p == pageFlip.index + 1
            asked == PagesToRender(pageFlip.index, isDoublePageMode, totalPages)
            want == {q \in (p - 2)..(p + (IF isDoublePageMode THEN 4 ELSE 2)) :
                        q >= 1 /\ q <= totalPages}
        IN  /\ {asked[i] : i \in DOMAIN asked} = want
            /\ (tasks = {} /\ LoadsIdle) => \A q \in want : pages[q].canvas # NoCanvas

\* C26: when a turn has started in double mode from the spread (2k, 2k + 1),
\* whose engine index is 2k - 1, the preview shows page 2k + 3, and page 3
\* from the cover; it shows nothing when that page is beyond pageCount, and
\* it is never shown in single mode.
C26_UnderneathIsNextRight ==
    /\ ~isDoublePageMode => ~underneath.shown
    /\ (lastOp.op = "turnStart" /\ isDoublePageMode) =>
           LET right == IF lastOp.n = 0 THEN 3 ELSE lastOp.n + 4
           IN  IF right > totalPages THEN ~underneath.shown
               ELSE underneath.shown /\ underneath.page = right

\* C27: the flip handler, run for a completed turn to engine index i, leaves
\* currentPage = i + 1 and the fragment naming it; and from a state where the
\* fragment names the current page, a page of the book, a navigation step
\* (goToPage, the page input, a completed turn) that changes the current page
\* and leaves the book at rest leaves the fragment naming the current page.
C27_FragmentNamesCurrentPage ==
    [][/\ lastOp'.op = "flip" =>
              (currentPage' = lastOp'.n + 1 /\ hash' = <<currentPage'>>)
       /\ (/\ lastOp'.op \in {"flip", "goToPage", "pageInput"}
           /\ pageFlip'.st = "read"
           /\ hash = <<currentPage>>
           /\ currentPage \in 1..totalPages
           /\ currentPage' # currentPage) => hash' = <<currentPage'>>]_vars

\* C28: after a jump to a search result whose page had no text layer yet,
\* once the layer is attached and nothing is pending (no render, no rebuild,
\* no load, no turn, no highlight timer), every text run of the page whose
\* lowercased text contains the query is highlighted.
C28_HighlightReachesLateLayer ==
    (/\ history.late
     /\ timers = {} /\ tasks = {} /\ inits = {} /\ LoadsIdle
     /\ pageFlip.st = "read"
     /\ ResultAt(currentSearchIndex) \in DOMAIN pages
     /\ pages[ResultAt(currentSearchIndex)].layers # << >>)
        => MatchingSpans(ResultAt(currentSearchIndex),
                         pages[ResultAt(currentSearchIndex)].layers,
                         currentSearchQuery)
               \subseteq pages[ResultAt(currentSearchIndex)].hl

\* C29: the cursor is -1 exactly when the result list is empty and an index
\* of the list otherwise, and every page of the list is a page of the
\* current document.
C29_SearchStateWellFormed ==
    /\ currentSearchIndex = 0 - 1 <=> searchResults = << >>
    /\ searchResults # << >> =>
           (0 <= currentSearchIndex /\ currentSearchIndex < Len(searchResults))
    /\ \A i \in 1..Len(searchResults) :
           1 <= searchResults[i] /\ searchResults[i] <= totalPages

\* C30: zoomIn, zoomOut, the wheel, the events of a two-finger gesture and of
\* a right-button drag, toggleZoom and resetZoom leave the current page, the
\* layout mode, the render cache and the search state as they are; goToPage,
\* the start and the completion of a turn, a search and a layout toggle
\* leave zoom and pan as they are.
C30_ViewAndPagesIndependent ==
    [][/\ lastOp'.op \in {"zoomIn", "zoomOut", "wheel", "pinchStart", "pinchMove",
                          "pinchPan", "touchend", "mousedown", "mousemove",
                          "mouseup", "toggleZoom", "resetZoom"}
              => UNCHANGED <<currentPage, isDoublePageMode, pageCache, searchResults,
                             currentSearchIndex, currentSearchQuery>>
       /\ lastOp'.op \in {"goToPage", "turnStart", "flip", "search", "searchCleared",
                          "toggleViewMode"}
              => UNCHANGED <<zoom, panX, panY>>]_vars

C30_Witness ==
    /\ lastOp.op = "flip"
    /\ zoom # 100 /\ panX # 0
    /\ currentPage > 1
    /\ searchResults # << >>
    /\ ~isDoublePageMode
    /\ pageCache # {}

\* C31: the page dimensions initFlipbook computes are integers of at least
\* floorWidth x floorHeight, for every viewport, layout mode and aspect ratio,
\* and two pages of a flipbook laid out in double mode fit, side by side, the
\* width of the window.
C31_DimsAboveFloor ==
    pageFlip.st # "null" =>
        /\ basePageWidth \in Int /\ basePageHeight \in Int
        /\ basePageWidth >= floorWidth
        /\ basePageHeight >= floorHeight
        /\ pageFlip.double => 2 * basePageWidth <= Max(innerWidth, floorWidth)

\* C32: once no renderPageContent call is pending, every page surface holds
\* at most one text-layer overlay, and one that holds an overlay holds a
\* bitmap, whichever way the calls for the page interleaved.
C32_OneBitmapOneOverlay ==
    (tasks = {} /\ inits = {}) =>
        \A p \in DOMAIN pages :
            /\ Len(pages[p].layers) <= 1
            /\ pages[p].layers # << >> => pages[p].canvas # NoCanvas

\* C33: once loadPdfFromUrl and a load started from an upload while it was
\* in progress have both finished, pageCount is the page count of
\* the document in state.pdfDoc and the text index holds, for every page
\* 1..pageCount, the lowercased text of that page of that document (the empty
\* string for a page whose extraction fails).
C33_OverlappingLoadsAgree ==
    (LoadsIdle /\ pdfDoc # 0) =>
        /\ totalPages = NumPagesOf(pdfDoc)
        /\ \A p \in 1..totalPages :
              /\ p \in DOMAIN pageTexts
              /\ pageTexts[p] = IF TextFails(pdfDoc, p) THEN << >>
                                ELSE LowerStr(JoinItems(DocItems(pdfDoc, p)))

\* C34: with layout toggles and window resizes, whenever a flipbook is laid
\* out and no render and no rebuild is pending, every entry of the render
\* cache is keyed by the current target dimensions (basePageWidth,
\* basePageHeight).
C34_CacheKeysCurrent ==
    (pageFlip.st # "null" /\ tasks = {} /\ inits = {}) =>
        \A e \in pageCache : e.w = basePageWidth /\ e.h = basePageHeight

\* C35: whenever the flipbook is at rest (no turn requested or in progress),
\* state.currentPage is the engine's current page index + 1.
C35_CurrentPageFollowsEngine ==
    pageFlip.st = "read" => currentPage = pageFlip.index + 1

\* C36: handleResize run for a flipbook that was laid out for the present
\* viewport width, layout mode and device class starts no rebuild and leaves
\* the page surfaces, the base dimensions and the render cache as they are.
C36_ResizeStable ==
    [][(/\ lastOp'.op \in {"resizeModeChanged", "resizeRelayout", "resizeKept",
                           "resizeNoBook"}
        /\ pdfDoc # 0 /\ pageFlip.st # "null" /\ inits = {}
        /\ viewer /\ history.layoutW = innerWidth
        /\ pageFlip.double = isDoublePageMode
        /\ isMobile = (innerWidth <= MOBILE_BREAKPOINT))
           => UNCHANGED <<inits, pages, pageFlip, basePageWidth, basePageHeight,
                          pageCache>>]_vars

====
